---------------------------- MODULE Spec2Model ----------------------------
(***************************************************************************)
(* Counter-app: calendar-aligned counters over a Postgres store.           *)
(*                                                                         *)
(* Instants are integers: ticks since 1970-01-01 00:00 UTC, TicksPerHour   *)
(* ticks to the hour.  Strings whose characters the code inspects          *)
(* (frequency specifiers) are sequences of one-character strings.          *)
(* Timezones are the fixed-offset zones of ZoneTable.                      *)
(* int64 arithmetic is modelled at IntBits bits, two's complement.         *)
(***************************************************************************)
EXTENDS Integers, Sequences, FiniteSets, TLC

(***************************************************************************)
(* Bounds of the model.                                                    *)
(***************************************************************************)
TicksPerHour == 2
IntBits == 3
NumProcs == 2
MaxCounters == 2
MaxCounts == 2
MaxAdvance == 3
StartHour == 263
FreqDays == 15
AtoiBits == 6

(***************************************************************************)
(* Units of time.                                                          *)
(***************************************************************************)
HoursPerDay == 24
DaysPerWeek == 7
Hour == TicksPerHour
Day == HoursPerDay * Hour
Week == DaysPerWeek * Day

(***************************************************************************)
(* Go's integer semantics.                                                 *)
(***************************************************************************)
\* int(x) of a float and Go's integer division: both truncate toward zero.
TruncDiv(a, b) == IF a >= 0 THEN a \div b ELSE -((-a) \div b)

MaxInt == 2^(IntBits - 1) - 1
MinInt == -(2^(IntBits - 1))
\* int64 addition wraps around.
WrapAdd(a, b) == ((a + b - MinInt) % 2^IntBits) + MinInt

(***************************************************************************)
(* Go's time package, for fixed-offset locations.                          *)
(***************************************************************************)
\* time.LoadLocation: the zones the model resolves, with their UTC offset in
\* hours.  "" and "UTC" are UTC; any other name fails.
ZoneTable ==
  [z \in {"", "UTC", "Etc/GMT-1", "Etc/GMT+1"} |->
     CASE z = "Etc/GMT-1" -> 1
       [] z = "Etc/GMT+1" -> -1
       [] OTHER -> 0]

LoadLocation(tz) ==
  IF tz \in DOMAIN ZoneTable THEN [ok |-> TRUE, off |-> ZoneTable[tz] * Hour]
                             ELSE [ok |-> FALSE, off |-> 0]

\* t.Truncate(d): rounds the absolute instant down to a multiple of d since
\* the zero time (a whole number of days before 1970-01-01 00:00 UTC); the
\* location of t plays no part.
Truncate(t, d) == t - (t % d)

\* t.In(loc).Hour(): hour of the wall clock at offset off.
HourOf(t, off) == ((t + off) % Day) \div Hour

\* t.AddDate(0, 0, days) in a fixed-offset location.
AddDate(t, days) == t + days * Day

\* time.Date(1970, 1, d, 0, 0, 0, 0, loc): local midnight of January d, 1970.
DateJan1970(d, off) == (d - 1) * Day - off

(***************************************************************************)
(* ParseFrequency: ^(\d+)([hdw])$ and strconv.Atoi.                        *)
(***************************************************************************)
Digits == {"0", "1", "2", "3", "4", "5", "6", "7", "8", "9"}
Units == {"h", "d", "w"}

DigitVal(c) ==
  CASE c = "0" -> 0 [] c = "1" -> 1 [] c = "2" -> 2 [] c = "3" -> 3
    [] c = "4" -> 4 [] c = "5" -> 5 [] c = "6" -> 6 [] c = "7" -> 7
    [] c = "8" -> 8 [] c = "9" -> 9

\* The number a string of decimal digits denotes.
RECURSIVE DecimalValue(_)
DecimalValue(s) == IF s = <<>> THEN 0
                   ELSE 10 * DecimalValue(SubSeq(s, 1, Len(s) - 1)) + DigitVal(s[Len(s)])

\* strconv.Atoi on a digit string: a value beyond the largest int comes back
\* as that largest int with a range error, which ParseFrequency discards.
MaxAtoi == 2^(AtoiBits - 1) - 1
Atoi(s) == IF DecimalValue(s) > MaxAtoi THEN MaxAtoi ELSE DecimalValue(s)

ParseFrequency(freq) ==
  IF /\ Len(freq) >= 2
     /\ \A i \in 1..(Len(freq) - 1) : freq[i] \in Digits
     /\ freq[Len(freq)] \in Units
  THEN [ok |-> TRUE, n |-> Atoi(SubSeq(freq, 1, Len(freq) - 1)),
        unit |-> freq[Len(freq)]]
  ELSE [ok |-> FALSE, n |-> 0, unit |-> ""]

\* No ParseFrequency call has returned yet.
NoParse == [ok |-> FALSE, n |-> -1, unit |-> ""]

(***************************************************************************)
(* NextExpiryTime.  The result is [err, t]: err is "" on success,          *)
(* "format" or "timezone" for the two errors, and "panic" for the integer  *)
(* division by a zero multiplier.                                          *)
(***************************************************************************)
Failure(e) == [err |-> e, t |-> 0]
Success(t) == [err |-> "", t |-> t]

NextHourBoundary(n, now, off) ==
  LET hoursSinceMidnight == HourOf(now, off)
      nextBoundaryHour == (TruncDiv(hoursSinceMidnight, n) + 1) * n
  IN IF nextBoundaryHour >= HoursPerDay
     THEN Truncate(AddDate(now, 1), Day)
     ELSE Truncate(now, Day) + nextBoundaryHour * Hour

NextDayBoundary(n, now, off) ==
  LET epoch == DateJan1970(1, off)
      daysSinceEpoch == TruncDiv(now - epoch, Day)
      nextBoundaryDay == (TruncDiv(daysSinceEpoch, n) + 1) * n
  IN Truncate(AddDate(epoch, nextBoundaryDay), Day)

NextWeekBoundary(n, now, off) ==
  LET epoch == DateJan1970(5, off)
      weeksSinceEpoch == TruncDiv(now - epoch, Week)
      nextBoundaryWeek == (TruncDiv(weeksSinceEpoch, n) + 1) * n
  IN Truncate(AddDate(epoch, nextBoundaryWeek * DaysPerWeek), Day)

\* Variant of NextExpiryTime that resolves the timezone before it parses the
\* specifier.
NextExpiryTime_ZoneFirst(freq, now, timezone) ==
  LET p == ParseFrequency(freq)
      loc == LoadLocation(timezone)
  IN IF ~loc.ok THEN Failure("timezone")
     ELSE IF ~p.ok THEN Failure("format")
     ELSE IF p.n = 0 THEN Failure("panic")
     ELSE CASE p.unit = "h" -> Success(NextHourBoundary(p.n, now, loc.off))
            [] p.unit = "d" -> Success(NextDayBoundary(p.n, now, loc.off))
            [] p.unit = "w" -> Success(NextWeekBoundary(p.n, now, loc.off))

NextExpiryTime(freq, now, timezone) ==
  LET p == ParseFrequency(freq)
      loc == LoadLocation(timezone)
  IN IF ~p.ok THEN Failure("format")
     ELSE IF ~loc.ok THEN Failure("timezone")
     ELSE IF p.n = 0 THEN Failure("panic")
     ELSE CASE p.unit = "h" -> Success(NextHourBoundary(p.n, now, loc.off))
            [] p.unit = "d" -> Success(NextDayBoundary(p.n, now, loc.off))
            [] p.unit = "w" -> Success(NextWeekBoundary(p.n, now, loc.off))

(***************************************************************************)
(* The store and the request handlers.                                     *)
(***************************************************************************)
VARIABLES
  now,       \* the wall clock (time.Now() and the database's now())
  counters,  \* table counters, in id order: counters[i].id = i
  counts,    \* table counts, in id order: counts[i].id = i
  proc,      \* per request goroutine: its position and locals
  ret,       \* the call that returned last, with what it returned
  fin,       \* arguments of a stand-alone NextExpiryTime call
  fout,      \* its result
  pout,      \* result of a stand-alone ParseFrequency call on fin.freq
  raced      \* history: counters for which a Count was inserted on a stale read

vars == <<now, counters, counts, proc, ret, fin, fout, pout, raced>>

Procs == 1..NumProcs

\* The strings the model passes as frequency specifiers and timezones.
Str1h == <<"1", "h">>
Str1d == <<"1", "d">>
Str1m == <<"1", "m">>
Names == {"a"}
FreqInputs == {<<>>, Str1h, Str1m}
ZoneInputs == {"", "Etc/GMT+1", "Mars/Base"}
Deltas == {-2, 0, 1}
\* Counter ids a caller may pass: the existing ones and one that never exists.
CounterIDs == 1..MaxCounters

\* The clock starts at hour StartHour of 1970: Sunday 1970-01-11 at 23:00 UTC.
Clock0 == StartHour * Hour

NoCount == [id |-> 0, counter_id |-> 0, value |-> 0, expiry |-> 0, created_at |-> 0]
NoCounter == [id |-> 0, name |-> "", frequency |-> <<>>, timezone |-> "", created_at |-> 0]
NoRet == [op |-> "", id |-> 0, delta |-> 0, err |-> "", count |-> NoCount, rows |-> <<>>,
          counter |-> NoCounter]
Idle == [pc |-> "idle", op |-> "", id |-> 0, delta |-> 0, frequency |-> <<>>,
         timezone |-> "", cur |-> NoCount, seen |-> 0, expiry |-> 0, ioerr |-> FALSE,
         via |-> ""]

Call(op, id, delta) == [NoRet EXCEPT !.op = op, !.id = id, !.delta = delta]
CallOf(p) == Call(proc[p].op, proc[p].id, proc[p].delta)
\* The call of goroutine p returns r.
Return(p, r) == /\ proc' = [proc EXCEPT ![p] = Idle]
                /\ ret' = r

\* Calls in flight that may still insert a Count row.
MayInsert == {q \in Procs : proc[q].pc \in {"getCounter", "selectLatest", "checkExpiry",
                                            "computeExpiry", "insert"}}
RoomForCall == Len(counts) + Cardinality(MayInsert) < MaxCounts

\* SELECT ... FROM counts WHERE counter_id = $1 ORDER BY id DESC LIMIT 1
RowsOf(id) == {i \in 1..Len(counts) : counts[i].counter_id = id}
HasLatest(id) == RowsOf(id) # {}
\* Variant of the latest-row query: ORDER BY id ASC.
Latest_Oldest(id) == counts[CHOOSE i \in RowsOf(id) : \A j \in RowsOf(id) : i <= j]
Latest(id) == counts[CHOOSE i \in RowsOf(id) : \A j \in RowsOf(id) : j <= i]

\* Variants of the expiry test: one hour of grace, and no Count ever current.
Expired_Grace(c, t) == t > c.expiry + Hour
Expired_Always(c, t) == TRUE

\* time.Now().UTC().After(expiryTime)
Expired(c, t) == t > c.expiry

\* No call in flight may insert, and the latest Count of counter id outlives
\* the clock of the model: a call on id now will find it current.
StaysCurrent(id) ==
  /\ MayInsert = {}
  /\ HasLatest(id)
  /\ Latest(id).expiry >= Clock0 + MaxAdvance

Init ==
  /\ now = Clock0
  /\ counters = <<>>
  /\ counts = <<>>
  /\ proc = [p \in Procs |-> Idle]
  /\ ret = NoRet
  /\ fin = [freq |-> <<>>, now |-> 0, tz |-> ""]
  /\ fout = Failure("")
  /\ pout = NoParse
  /\ raced = {}

\* Time passes.
Tick ==
  /\ now < Clock0 + MaxAdvance
  /\ now' = now + 1
  /\ UNCHANGED <<counters, counts, proc, ret, fin, fout, pout, raced>>

\* Variant of the UNIQUE constraint on a case-insensitive column.
SameName_Fold(a, b) == (IF a = "A" THEN "a" ELSE a) = (IF b = "A" THEN "a" ELSE b)
\* name TEXT NOT NULL UNIQUE: names are compared as they are written.
SameName(a, b) == a = b

\* Variant of CreateCounter that stores the arguments without defaults.
CreateCounter_NoDefaults(p, name, frequency, timezone) ==
  /\ proc[p].pc = "idle"
  /\ LET c == [id |-> Len(counters) + 1, name |-> name, frequency |-> frequency,
               timezone |-> timezone, created_at |-> now]
     IN IF \E i \in 1..Len(counters) : SameName(counters[i].name, name)
        THEN /\ counters' = counters
             /\ ret' = [Call("create", 0, 0) EXCEPT !.err = "duplicate"]
        ELSE /\ Len(counters) < MaxCounters
             /\ counters' = Append(counters, c)
             /\ ret' = [Call("create", c.id, 0) EXCEPT !.counter = c]
  /\ UNCHANGED <<now, counts, proc, fin, fout, pout, raced>>

\* CreateCounter: one INSERT; the name is UNIQUE.
CreateCounter(p, name, frequency, timezone) ==
  /\ proc[p].pc = "idle"
  /\ LET f == IF frequency = <<>> THEN Str1d ELSE frequency
         z == IF timezone = "" THEN "UTC" ELSE timezone
         c == [id |-> Len(counters) + 1, name |-> name, frequency |-> f,
               timezone |-> z, created_at |-> now]
     IN IF \E i \in 1..Len(counters) : SameName(counters[i].name, name)
        THEN /\ counters' = counters
             /\ ret' = [Call("create", 0, 0) EXCEPT !.err = "duplicate"]
        ELSE /\ Len(counters) < MaxCounters
             /\ counters' = Append(counters, c)
             /\ ret' = [Call("create", c.id, 0) EXCEPT !.counter = c]
  /\ UNCHANGED <<now, counts, proc, fin, fout, pout, raced>>

\* Variant of UpdateCounterFrequency without the RowsAffected check.
UpdateCounterFrequency_Silent(p, id, frequency) ==
  /\ proc[p].pc = "idle"
  /\ IF id \in 1..Len(counters)
     THEN /\ counters' = [counters EXCEPT ![id].frequency = frequency]
          /\ proc' = [proc EXCEPT ![p] = [Idle EXCEPT !.pc = "readBack", !.op = "update",
                                                     !.id = id]]
          /\ ret' = ret
     ELSE /\ counters' = counters
          /\ proc' = proc
          /\ ret' = Call("update", id, 0)
  /\ UNCHANGED <<now, counts, fin, fout, pout, raced>>

\* Variant of UpdateCounterFrequency whose UPDATE also resets the timezone.
UpdateCounterFrequency_ResetZone(p, id, frequency) ==
  /\ proc[p].pc = "idle"
  /\ IF id \in 1..Len(counters)
     THEN /\ counters' = [counters EXCEPT ![id].frequency = frequency,
                                          ![id].timezone = "UTC"]
          /\ proc' = [proc EXCEPT ![p] = [Idle EXCEPT !.pc = "readBack", !.op = "update",
                                                     !.id = id]]
          /\ ret' = ret
     ELSE /\ counters' = counters
          /\ proc' = proc
          /\ ret' = [Call("update", id, 0) EXCEPT !.err = "not found"]
  /\ UNCHANGED <<now, counts, fin, fout, pout, raced>>

\* UpdateCounterFrequency: the UPDATE statement.
UpdateCounterFrequency(p, id, frequency) ==
  /\ proc[p].pc = "idle"
  /\ IF id \in 1..Len(counters)
     THEN /\ counters' = [counters EXCEPT ![id].frequency = frequency]
          /\ proc' = [proc EXCEPT ![p] = [Idle EXCEPT !.pc = "readBack", !.op = "update",
                                                     !.id = id]]
          /\ ret' = ret
     ELSE /\ counters' = counters
          /\ proc' = proc
          /\ ret' = [Call("update", id, 0) EXCEPT !.err = "not found"]
  /\ UNCHANGED <<now, counts, fin, fout, pout, raced>>

\* UpdateCounterFrequency: the closing GetCounterByID.
ReadBack(p) ==
  /\ proc[p].pc = "readBack"
  /\ Return(p, [CallOf(p) EXCEPT !.counter = counters[proc[p].id]])
  /\ UNCHANGED <<now, counters, counts, fin, fout, pout, raced>>

\* A caller enters GetOrCreateCurrentCount.
CallGet(p, id) ==
  /\ proc[p].pc = "idle"
  /\ RoomForCall \/ StaysCurrent(id)
  /\ proc' = [proc EXCEPT ![p] = [Idle EXCEPT !.pc = "getCounter", !.op = "get", !.id = id]]
  /\ UNCHANGED <<now, counters, counts, ret, fin, fout, pout, raced>>

\* Variant of the entry to IncrementCurrentCount without the delta check.
CallIncrement_NoZeroCheck(p, id, delta) ==
  /\ proc[p].pc = "idle"
  /\ RoomForCall
  /\ proc' = [proc EXCEPT ![p] = [Idle EXCEPT !.pc = "getCounter", !.op = "inc",
                                             !.id = id, !.delta = delta]]
  /\ ret' = ret
  /\ UNCHANGED <<now, counters, counts, fin, fout, pout, raced>>

\* A caller enters IncrementCurrentCount: the delta check.
CallIncrement(p, id, delta) ==
  /\ proc[p].pc = "idle"
  /\ RoomForCall
  /\ IF delta = 0
     THEN /\ proc' = proc
          /\ ret' = [Call("inc", id, delta) EXCEPT !.err = "delta must be non-zero"]
     ELSE /\ proc' = [proc EXCEPT ![p] = [Idle EXCEPT !.pc = "getCounter", !.op = "inc",
                                                     !.id = id, !.delta = delta]]
          /\ ret' = ret
  /\ UNCHANGED <<now, counters, counts, fin, fout, pout, raced>>

\* The body of a request to the increment or decrement endpoint: missing or
\* not decodable, or a JSON object whose delta decodes to an int64 (0 when the
\* field is absent).
NoBody == [present |-> FALSE, delta |-> 0]
Bodies == {NoBody} \cup {[present |-> TRUE, delta |-> d] : d \in {MinInt, -1, 0, 1}}
\* incrementCount, decrementCount: req.Delta after decoding and defaulting.
ReqDelta(body) ==
  LET d == IF body.present THEN body.delta ELSE 1
  IN IF d = 0 THEN 1 ELSE d

\* The handlers' call of IncrementCurrentCount; via records the endpoint.
HandlerCall(p, id, delta, endpoint) ==
  /\ proc[p].pc = "idle"
  /\ RoomForCall
  /\ IF delta = 0
     THEN /\ proc' = proc
          /\ ret' = [Call("inc", id, delta) EXCEPT !.err = "delta must be non-zero"]
     ELSE /\ proc' = [proc EXCEPT ![p] = [Idle EXCEPT !.pc = "getCounter", !.op = "inc",
                                                     !.id = id, !.delta = delta,
                                                     !.via = endpoint]]
          /\ ret' = ret
  /\ UNCHANGED <<now, counters, counts, fin, fout, pout, raced>>

\* POST /counters/{id}/count/increment
incrementCount(p, id, body) == HandlerCall(p, id, ReqDelta(body), "increment")

\* POST /counters/{id}/count/decrement: the delta is negated in int64.
decrementCount(p, id, body) == HandlerCall(p, id, WrapAdd(0, 0 - ReqDelta(body)), "decrement")

\* Variant of the counter lookup that does not fail for a missing counter.
GetCounterByID_NoCheck(p) ==
  /\ proc[p].pc = "getCounter"
  /\ proc' = [proc EXCEPT ![p].pc = "selectLatest", ![p].frequency = Str1d,
                           ![p].timezone = "UTC"]
  /\ ret' = ret
  /\ UNCHANGED <<now, counters, counts, fin, fout, pout, raced>>

\* GetOrCreateCurrentCount: GetCounterByID.
GetCounterByID(p) ==
  /\ proc[p].pc = "getCounter"
  /\ IF proc[p].id \in 1..Len(counters)
     THEN /\ proc' = [proc EXCEPT ![p].pc = "selectLatest",
                                  ![p].frequency = counters[proc[p].id].frequency,
                                  ![p].timezone = counters[proc[p].id].timezone]
          /\ ret' = ret
     ELSE Return(p, [CallOf(p) EXCEPT !.err = "no rows"])
  /\ UNCHANGED <<now, counters, counts, fin, fout, pout, raced>>

\* GetOrCreateCurrentCount: the query for the latest Count.
SelectLatest(p) ==
  /\ proc[p].pc = "selectLatest"
  /\ IF HasLatest(proc[p].id)
     THEN proc' = [proc EXCEPT ![p].pc = "checkExpiry", ![p].cur = Latest(proc[p].id),
                               ![p].seen = Latest(proc[p].id).id]
     ELSE proc' = [proc EXCEPT ![p].pc = "computeExpiry"]
  /\ UNCHANGED <<now, counters, counts, ret, fin, fout, pout, raced>>

\* GetOrCreateCurrentCount: the query for the latest Count fails in the store
\* (an I/O failure, not the absence of a row); any Scan error leads to
\* createNewCount.  ioerr records the failure.  The failure is taken while
\* the table has room for the row that createNewCount then inserts.
SelectLatestFails(p) ==
  /\ proc[p].pc = "selectLatest"
  /\ Len(counts) < MaxCounts
  /\ proc' = [proc EXCEPT ![p].pc = "computeExpiry", ![p].ioerr = TRUE]
  /\ UNCHANGED <<now, counters, counts, ret, fin, fout, pout, raced>>

\* Variant of the expiry check that starts a new Count on every call.
CheckExpiry_Fresh(p) ==
  /\ proc[p].pc = "checkExpiry"
  /\ proc' = [proc EXCEPT ![p].pc = "computeExpiry", ![p].cur = NoCount]
  /\ UNCHANGED <<now, counters, counts, ret, fin, fout, pout, raced>>

\* GetOrCreateCurrentCount: the expiry check against time.Now().
CheckExpiry(p) ==
  /\ proc[p].pc = "checkExpiry"
  /\ IF Expired(proc[p].cur, now)
     THEN /\ proc' = [proc EXCEPT ![p].pc = "computeExpiry", ![p].cur = NoCount]
          /\ ret' = ret
     ELSE IF proc[p].op = "get"
          THEN Return(p, [CallOf(p) EXCEPT !.count = proc[p].cur])
          ELSE /\ proc' = [proc EXCEPT ![p].pc = "update", ![p].seen = 0]
               /\ ret' = ret
  /\ UNCHANGED <<now, counters, counts, fin, fout, pout, raced>>

\* createNewCount: NextExpiryTime at time.Now().
ComputeExpiry(p) ==
  /\ proc[p].pc = "computeExpiry"
  /\ LET r == NextExpiryTime(proc[p].frequency, now, proc[p].timezone)
     IN IF r.err # ""
        THEN Return(p, [CallOf(p) EXCEPT !.err = r.err])
        ELSE /\ proc' = [proc EXCEPT ![p].pc = "insert", ![p].expiry = r.t]
             /\ ret' = ret
  /\ UNCHANGED <<now, counters, counts, fin, fout, pout, raced>>

\* createNewCount: the INSERT.  raced records (it steers nothing) that the
\* latest Count of the counter is no longer the one this call selected.
InsertCount(p) ==
  /\ proc[p].pc = "insert"
  /\ LET c == [id |-> Len(counts) + 1, counter_id |-> proc[p].id, value |-> 0,
               expiry |-> proc[p].expiry, created_at |-> now]
         latest == IF HasLatest(proc[p].id) THEN Latest(proc[p].id).id ELSE 0
     IN /\ counts' = Append(counts, c)
        /\ raced' = IF latest # proc[p].seen THEN raced \cup {proc[p].id} ELSE raced
        /\ IF proc[p].op = "get"
           THEN Return(p, [CallOf(p) EXCEPT !.count = c])
           ELSE /\ proc' = [proc EXCEPT ![p].pc = "update", ![p].cur = c, ![p].seen = 0,
                                        ![p].expiry = 0]
                /\ ret' = ret
  /\ UNCHANGED <<now, counters, fin, fout, pout>>

\* Variant of the new value without the clamp.
NewValue_NoClamp(value, delta) == WrapAdd(value, delta)

\* IncrementCurrentCount: the new value, clamped to zero.
NewValue(value, delta) ==
  LET newValue == WrapAdd(value, delta)
  IN IF newValue < 0 THEN 0 ELSE newValue

\* Variant of the UPDATE that selects rows by counter instead of by row id.
UpdateValue_ByCounter(p) ==
  /\ proc[p].pc = "update"
  /\ LET id == proc[p].cur.id
         v == NewValue(proc[p].cur.value, proc[p].delta)
     IN /\ counts' = [i \in 1..Len(counts) |->
                        IF counts[i].counter_id = proc[p].id
                        THEN [counts[i] EXCEPT !.value = v] ELSE counts[i]]
        /\ Return(p, [CallOf(p) EXCEPT !.count = counts'[id]])
  /\ UNCHANGED <<now, counters, fin, fout, pout, raced>>

\* Variant of the UPDATE that also renews the expiry of the row.
UpdateValue_Renew(p) ==
  /\ proc[p].pc = "update"
  /\ LET id == proc[p].cur.id
         v == NewValue(proc[p].cur.value, proc[p].delta)
     IN /\ counts' = [counts EXCEPT ![id].value = v, ![id].expiry = now + Hour]
        /\ Return(p, [CallOf(p) EXCEPT !.count = counts'[id]])
  /\ UNCHANGED <<now, counters, fin, fout, pout, raced>>

\* IncrementCurrentCount: the UPDATE of the row read earlier.
UpdateValue(p) ==
  /\ proc[p].pc = "update"
  /\ LET id == proc[p].cur.id
         v == NewValue(proc[p].cur.value, proc[p].delta)
     IN /\ counts' = [counts EXCEPT ![id].value = v]
        /\ Return(p, [CallOf(p) EXCEPT !.count = counts'[id]])
  /\ UNCHANGED <<now, counters, fin, fout, pout, raced>>

\* Variant of the history order: oldest first.
IsHistory_OldestFirst(h, id) ==
  /\ Len(h) = Cardinality(RowsOf(id))
  /\ {h[i].id : i \in 1..Len(h)} = RowsOf(id)
  /\ \A i \in 1..Len(h) : h[i] = counts[h[i].id]
  /\ \A i, j \in 1..Len(h) : i < j => h[i].created_at <= h[j].created_at

\* GetCountHistory: rows of the counter, ORDER BY created_at DESC; rows whose
\* created_at tie come in either order.
IsHistory(h, id) ==
  /\ Len(h) = Cardinality(RowsOf(id))
  /\ {h[i].id : i \in 1..Len(h)} = RowsOf(id)
  /\ \A i \in 1..Len(h) : h[i] = counts[h[i].id]
  /\ \A i, j \in 1..Len(h) : i < j => h[i].created_at >= h[j].created_at

RECURSIVE SeqsOver(_, _)
SeqsOver(S, n) == IF n = 0 THEN {<<>>}
                  ELSE {Append(s, x) : s \in SeqsOver(S, n - 1), x \in S}

\* Variant of GetCountHistory without the WHERE clause: the rows of every
\* counter, latest first.
GetCountHistory_AllCounters(p, id) ==
  /\ proc[p].pc = "idle"
  /\ ret' = [Call("history", id, 0) EXCEPT
               !.rows = [i \in 1..Len(counts) |-> counts[Len(counts) + 1 - i]]]
  /\ UNCHANGED <<now, counters, counts, proc, fin, fout, pout, raced>>

GetCountHistory(p, id) ==
  /\ proc[p].pc = "idle"
  /\ \E h \in SeqsOver({counts[i] : i \in RowsOf(id)}, Cardinality(RowsOf(id))) :
       /\ IsHistory(h, id)
       /\ ret' = [Call("history", id, 0) EXCEPT !.rows = h]
  /\ UNCHANGED <<now, counters, counts, proc, fin, fout, pout, raced>>

\* One request at a time is in flight: goroutine 1 runs every operation, and
\* the clock may advance between any two of its statements.
Next ==
  \/ Tick
  \/ \E name \in Names, f \in FreqInputs, z \in ZoneInputs : CreateCounter(1, name, f, z)
  \/ \E id \in CounterIDs, f \in FreqInputs : UpdateCounterFrequency(1, id, f)
  \/ ReadBack(1)
  \/ \E id \in CounterIDs : CallGet(1, id)
  \/ \E id \in CounterIDs, d \in Deltas : CallIncrement(1, id, d)
  \/ GetCounterByID(1)
  \/ SelectLatest(1)
  \/ CheckExpiry(1)
  \/ ComputeExpiry(1)
  \/ InsertCount(1)
  \/ UpdateValue(1)
  \/ \E id \in CounterIDs : GetCountHistory(1, id)

Spec == Init /\ [][Next]_vars

\* The same with a store whose latest-row query may fail.
FaultNext ==
  \/ Next
  \/ SelectLatestFails(1)

FaultSpec == Init /\ [][FaultNext]_vars

\* The directory of Counters alone: creation under two names that differ only
\* by case, and frequency updates, by ids that include a missing one.
DirNames == {"a", "A"}
DirIDs == 1..(MaxCounters + 1)
DirNext ==
  \/ Tick
  \/ \E name \in DirNames, f \in FreqInputs, z \in ZoneInputs : CreateCounter(1, name, f, z)
  \/ \E id \in DirIDs, f \in FreqInputs : UpdateCounterFrequency(1, id, f)
  \/ ReadBack(1)
DirSpec == Init /\ [][DirNext]_vars

\* Requests to the increment and decrement endpoints, one at a time, on
\* counters created with any of the frequencies and timezones.
HandlerNext ==
  \/ Tick
  \/ \E name \in Names, f \in FreqInputs, z \in ZoneInputs : CreateCounter(1, name, f, z)
  \/ \E id \in CounterIDs, body \in Bodies : incrementCount(1, id, body)
  \/ \E id \in CounterIDs, body \in Bodies : decrementCount(1, id, body)
  \/ GetCounterByID(1)
  \/ SelectLatest(1)
  \/ CheckExpiry(1)
  \/ ComputeExpiry(1)
  \/ InsertCount(1)
  \/ UpdateValue(1)
HandlerSpec == Init /\ [][HandlerNext]_vars

\* Concurrent requests on one counter: the state after CreateCounter("a", f, z)
\* at the first instant, then GetOrCreateCurrentCount and
\* IncrementCurrentCount calls of all goroutines, interleaved statement by
\* statement.
ConcInit ==
  /\ now = Clock0
  /\ \E f \in {Str1h, Str1d}, z \in {"UTC", "Etc/GMT+1"} :
       counters = <<[id |-> 1, name |-> "a", frequency |-> f, timezone |-> z,
                     created_at |-> Clock0]>>
  /\ counts = <<>>
  /\ proc = [p \in Procs |-> Idle]
  /\ ret = NoRet
  /\ fin = [freq |-> <<>>, now |-> 0, tz |-> ""]
  /\ fout = Failure("")
  /\ pout = NoParse
  /\ raced = {}

ConcNext ==
  \/ Tick
  \/ \E p \in Procs : CallGet(p, 1)
  \/ \E p \in Procs, d \in Deltas : CallIncrement(p, 1, d)
  \/ \E p \in Procs : GetCounterByID(p)
  \/ \E p \in Procs : SelectLatest(p)
  \/ \E p \in Procs : CheckExpiry(p)
  \/ \E p \in Procs : ComputeExpiry(p)
  \/ \E p \in Procs : InsertCount(p)
  \/ \E p \in Procs : UpdateValue(p)
  \/ \E p \in Procs : GetCountHistory(p, 1)

ConcSpec == ConcInit /\ [][ConcNext]_vars

(***************************************************************************)
(* NextExpiryTime on its own: the arguments are drawn from the strings     *)
(* below, every tick of FreqDays days from Monday 1970-01-05 00:00 UTC,    *)
(* and every zone name of FreqZones.                                       *)
(***************************************************************************)
NumStrs == {<<"0">>, <<"1">>, <<"2">>, <<"3">>, <<"5">>, <<"2", "5">>, <<"9", "9">>}
BadFreqs == {<<>>, <<"1">>, <<"h">>, <<"1", "m">>, <<" ", "1", "h">>, <<"1", "h", " ">>,
             <<"2", "x", "3", "d">>, <<"1", "h", "d">>}
FreqArgs == {n \o <<u>> : n \in NumStrs, u \in Units} \cup BadFreqs
FreqZones == DOMAIN ZoneTable \cup {"Mars/Base"}
FirstMonday == DateJan1970(5, 0)
FreqInstants == FirstMonday..(FirstMonday + FreqDays * Day)
Pending == Failure("pending")

FreqInit ==
  /\ fin \in [freq : FreqArgs, now : FreqInstants, tz : FreqZones]
  /\ fout = Pending
  /\ pout = NoParse
  /\ now = Clock0
  /\ counters = <<>>
  /\ counts = <<>>
  /\ proc = [p \in Procs |-> Idle]
  /\ ret = NoRet
  /\ raced = {}

CallNextExpiryTime ==
  /\ fout = Pending
  /\ fout' = NextExpiryTime(fin.freq, fin.now, fin.tz)
  /\ UNCHANGED <<now, counters, counts, proc, ret, fin, pout, raced>>

CallParseFrequency ==
  /\ pout = NoParse
  /\ pout' = ParseFrequency(fin.freq)
  /\ UNCHANGED <<now, counters, counts, proc, ret, fin, fout, raced>>

FreqNext ==
  \/ CallNextExpiryTime
  \/ CallParseFrequency

FreqSpec == FreqInit /\ [][FreqNext]_vars

(***************************************************************************)
(* Properties.                                                             *)
(***************************************************************************)
Max0(x) == IF x < 0 THEN 0 ELSE x
\* Goroutine p executes the statement at position a in this step.
At(p, a) == proc[p].pc = a /\ proc'[p] # proc[p]

\* C7: for every valid specifier (multiplier >= 1, unit h, d or w), every
\* instant now from 1970-01-05 on and every resolvable timezone,
\* NextExpiryTime(freq, now, timezone) is strictly greater than now.
C7_NextExpiryAfterNow ==
  (fout # Pending /\ fout.err = "") => fout.t > fin.now

\* C8: every Count row has an expiry strictly after the instant at which it
\* was inserted.
C8_OpenWhenCreated ==
  \A i \in 1..Len(counts) : counts[i].expiry > counts[i].created_at

\* C1: in every reachable state every Count row has value >= 0.
C1_ValueNonNegative ==
  \A i \in 1..Len(counts) : counts[i].value >= 0

\* A decrement has been absorbed at zero.
C1_Witness ==
  /\ ret.op = "inc" /\ ret.err = "" /\ ret.delta < 0
  /\ ret.count.value = 0
  /\ counts[ret.count.id].value = 0

\* C2: a sequential IncrementCurrentCount(counterID, delta) with delta # 0
\* succeeds and returns and stores max(0, v + delta), v being the value of
\* the Count it updates.
C2_IncrementStoresClampedSum ==
  [][\A p \in Procs : At(p, "update") =>
       LET id == proc[p].cur.id
       IN /\ counts'[id].value = Max0(counts[id].value + proc[p].delta)
          /\ ret'.err = ""
          /\ ret'.count.value = counts'[id].value]_vars

C4_ExpiredAtOrBeforeNow ==
  [][\A p \in Procs :
       /\ (At(p, "selectLatest") /\ ~HasLatest(proc[p].id))
            => proc'[p].pc = "computeExpiry"
       /\ At(p, "checkExpiry")
            => (proc[p].cur.expiry <= now <=> proc'[p].pc = "computeExpiry")]_vars

\* C5: at the instant IncrementCurrentCount applies its UPDATE, the expiry of
\* the row it updates is strictly in the future.
C5_UpdateOnlyOpenCount ==
  [][\A p \in Procs : At(p, "update") => counts[proc[p].cur.id].expiry > now]_vars

\* The Counts of counter id whose expiry has not yet passed.
OpenCounts(id) == {i \in RowsOf(id) : counts[i].expiry >= now}

C9_ZeroDeltaRejected ==
  [][/\ (ret' # ret /\ ret'.op = "inc" /\ ret'.delta = 0)
          => /\ ret'.err = "delta must be non-zero"
             /\ counts' = counts
             /\ counters' = counters
     /\ \A p \in Procs : proc'[p].op = "inc" => proc'[p].delta # 0]_vars

\* A zero delta was rejected while the counter's latest Count was expired.
C9_Witness ==
  /\ ret.op = "inc" /\ ret.delta = 0 /\ ret.err = "delta must be non-zero"
  /\ HasLatest(ret.id)
  /\ Latest(ret.id).expiry < now

\* C10: an IncrementCurrentCount that finds the latest Count unexpired inserts
\* nothing, and its UPDATE changes the value of that row alone: the row's id,
\* counter id, expiry and creation instant, every other row and every Counter
\* stay as they were.
C10_IncrementChangesOnlyValue ==
  [][\A p \in Procs : (proc[p].op = "inc" /\ proc'[p] # proc[p]) =>
       /\ counters' = counters
       /\ proc[p].pc \in {"getCounter", "selectLatest", "checkExpiry", "computeExpiry"}
            => counts' = counts
       /\ (At(p, "checkExpiry") /\ ~(now > proc[p].cur.expiry))
            => /\ proc'[p].pc = "update"
               /\ proc'[p].cur = proc[p].cur
       /\ At(p, "update")
            => /\ proc[p].cur.id = Latest(proc[p].id).id
               /\ Len(counts') = Len(counts)
               /\ \A i \in 1..Len(counts) :
                    /\ i # proc[p].cur.id => counts'[i] = counts[i]
                    /\ counts'[i] = [counts[i] EXCEPT !.value = counts'[i].value]
               /\ ret'.count = counts'[proc[p].cur.id]]_vars

\* A decrement after increments of one and the same row: the table holds a
\* single row, returned with what is left of its value.
C10_Witness ==
  /\ ret.op = "inc" /\ ret.err = "" /\ ret.delta < 0
  /\ Len(counts) = 1
  /\ ret.count = counts[1]
  /\ ret.count.value > 0
  /\ ret.count.created_at < now

\* The rows of counter id were created at pairwise different instants.
CreatedInSequence(id) ==
  \A i, j \in RowsOf(id) : i < j => counts[i].created_at < counts[j].created_at

\* C11: for a counter whose N Count rows were created one after the other
\* (at different instants), GetCountHistory returns exactly those N rows, the
\* most recently created first, and changes nothing in the store.
C11_HistoryNewestFirst ==
  [][(ret' # ret /\ ret'.op = "history" /\ CreatedInSequence(ret'.id)) =>
       /\ ret'.err = ""
       /\ Len(ret'.rows) = Cardinality(RowsOf(ret'.id))
       /\ \A i \in RowsOf(ret'.id) : \E k \in 1..Len(ret'.rows) : ret'.rows[k] = counts[i]
       /\ \A k \in 1..(Len(ret'.rows) - 1) : ret'.rows[k].id > ret'.rows[k + 1].id
       /\ counts' = counts
       /\ counters' = counters]_vars

\* A history of two rows, one expired and one open, the later one first.
C11_Witness ==
  /\ ret.op = "history"
  /\ Len(ret.rows) = 2
  /\ ret.rows[1] = counts[2] /\ ret.rows[2] = counts[1]
  /\ counts[1].created_at < counts[2].created_at
  /\ counts[1].expiry < now /\ counts[2].expiry > now

C13_MissingCounterFails ==
  [][\A p \in Procs :
       (/\ proc[p].op \in {"get", "inc"}
        /\ proc[p].id \notin 1..Len(counters)
        /\ proc'[p] # proc[p]) =>
         /\ proc'[p] = Idle
         /\ ret'.op = proc[p].op /\ ret'.id = proc[p].id
         /\ ret'.err # ""
         /\ counts' = counts
         /\ counters' = counters]_vars

\* An increment by a non-zero delta on a missing counter has failed, the
\* store holding a counter and a Count.
C13_Witness ==
  /\ ret.op = "inc" /\ ret.delta # 0
  /\ ret.id \notin 1..Len(counters)
  /\ ret.err = "no rows"
  /\ Len(counters) > 0 /\ Len(counts) > 0

\* C14: two concurrent GetOrCreateCurrentCount calls that both found no
\* current Count both insert and return without error, so that two rows
\* exist; a later call reads the row with the greatest id of the counter and,
\* that row being unexpired, returns it and inserts nothing.
C14_RaceLatestWins ==
  [][\A p \in Procs :
       /\ At(p, "computeExpiry") => proc'[p].pc = "insert"
       /\ At(p, "insert") =>
            /\ Len(counts') = Len(counts) + 1
            /\ \A i \in 1..Len(counts) : counts'[i] = counts[i]
            /\ proc[p].op = "get" =>
                 (ret'.err = "" /\ ret'.count = counts'[Len(counts')] /\ proc'[p] = Idle)
       /\ (At(p, "selectLatest") /\ HasLatest(proc[p].id)) =>
            /\ proc'[p].cur \in {counts[i] : i \in RowsOf(proc[p].id)}
            /\ \A i \in RowsOf(proc[p].id) : i <= proc'[p].cur.id
       /\ (At(p, "checkExpiry") /\ proc[p].op = "get" /\ now <= proc[p].cur.expiry) =>
            /\ ret'.err = "" /\ ret'.count = proc[p].cur
            /\ counts' = counts]_vars

\* After a race left two open Counts, a later GetOrCreateCurrentCount has
\* read the one with the greater id.
C14_Witness ==
  /\ raced = {1}
  /\ Len(counts) = 2
  /\ counts[1].expiry >= now /\ counts[2].expiry >= now
  /\ \E p \in Procs : /\ proc[p].pc = "checkExpiry"
                      /\ proc[p].op = "get"
                      /\ proc[p].cur = counts[2]

(***************************************************************************)
(* Properties of NextExpiryTime and ParseFrequency.                        *)
(***************************************************************************)
\* The stand-alone NextExpiryTime call has returned a time for a specifier
\* with unit u and a multiplier of at least 1.
Returned(u) ==
  /\ fout # Pending /\ fout.err = ""
  /\ ParseFrequency(fin.freq).unit = u
  /\ ParseFrequency(fin.freq).n >= 1
\* The multiplier and the UTC offset of the call's arguments.
ArgN == ParseFrequency(fin.freq).n
ArgOff == LoadLocation(fin.tz).off
\* Midnight of the local day of t at offset off, as an instant.
LocalMidnight(t, off) == ((t + off) \div Day) * Day - off

\* C15: for unit h, with h the local hour of day of now, the result is local
\* midnight of now's local day plus ((h / n) + 1) * n hours if that is below
\* 24 hours, and local midnight of the next local day otherwise, whatever the
\* offset of the timezone.
C15_HourBoundary ==
  Returned("h") =>
    LET h == HourOf(fin.now, ArgOff)
        next == ((h \div ArgN) + 1) * ArgN
    IN fout.t = IF next < HoursPerDay
                THEN LocalMidnight(fin.now, ArgOff) + next * Hour
                ELSE LocalMidnight(fin.now, ArgOff) + Day

\* C16: for unit d the result is the local midnight ((elapsed / n) + 1) * n
\* days after local midnight of 1970-01-01, elapsed being the whole days
\* from that anchor to local midnight of now's local day, whatever the offset.
C16_DayBoundary ==
  Returned("d") =>
    LET anchor == DateJan1970(1, ArgOff)
        elapsed == (LocalMidnight(fin.now, ArgOff) - anchor) \div Day
    IN fout.t = anchor + ((elapsed \div ArgN) + 1) * ArgN * Day

\* C17: for unit w the result lies a whole multiple of 7 * n days after local
\* midnight of Monday 1970-01-05, and it is the first such instant strictly
\* after now.
C17_WeekBoundary ==
  Returned("w") =>
    LET anchor == DateJan1970(5, ArgOff)
    IN /\ (fout.t - anchor) % (ArgN * Week) = 0
       /\ fout.t > fin.now
       /\ fout.t - ArgN * Week <= fin.now

\* Day of the week of the day of instant t (an instant of the wall clock):
\* 0 is Sunday; 1970-01-01 was a Thursday.
Weekday(t) == ((t \div Day) + 4) % DaysPerWeek

\* C18: for frequency "1w" the result is a Sunday at 00:00 of the wall clock
\* of the timezone.
C18_WeeklyOnSunday ==
  (fout # Pending /\ fout.err = "" /\ fin.freq = <<"1", "w">>) =>
    /\ Weekday(fout.t + ArgOff) = 0
    /\ (fout.t + ArgOff) % Day = 0

\* C19: if b is the result for (freq, t1, tz) then every instant t2 with
\* t1 <= t2 < b has the same result b.
C19_Alignment ==
  (fout # Pending /\ fout.err = "" /\ ArgN >= 1) =>
    \A t2 \in FreqInstants :
      (fin.now <= t2 /\ t2 < fout.t) =>
        NextExpiryTime(fin.freq, t2, fin.tz) = fout

\* The string is one or more decimal digits followed by one of h, d, w.
IsSpecifier(str) ==
  /\ Len(str) >= 2
  /\ \A i \in 1..(Len(str) - 1) : str[i] \in Digits
  /\ str[Len(str)] \in Units

\* C20: ParseFrequency succeeds exactly on the strings of one or more digits
\* followed by one of h, d, w, and then returns the number the digits denote
\* and that unit character.
C20_ParseFrequencyExact ==
  pout # NoParse =>
    /\ pout.ok <=> IsSpecifier(fin.freq)
    /\ pout.ok => /\ pout.n = DecimalValue(SubSeq(fin.freq, 1, Len(fin.freq) - 1))
                  /\ pout.unit = fin.freq[Len(fin.freq)]


\* C21: every successful parse has a multiplier of at least 1, and
\* NextExpiryTime never divides by a zero multiplier.
C21_MultiplierAtLeastOne ==
  /\ (pout # NoParse /\ pout.ok) => pout.n >= 1
  /\ fout # Pending => fout.err # "panic"


\* The stored frequency or timezone of counter id is one NextExpiryTime
\* rejects.
InvalidCounter(id) ==
  \/ ~ParseFrequency(counters[id].frequency).ok
  \/ ~LoadLocation(counters[id].timezone).ok

C23_QueryFailureReturned ==
  [][\A p \in Procs :
       /\ At(p, "selectLatest") => ~proc'[p].ioerr
       /\ At(p, "insert") => ~proc[p].ioerr]_vars


\* C24: no step removes a Count row or changes the id, counter, expiry or
\* creation instant of an existing row, the clock never goes back, and so a
\* Count whose expiry has passed stays expired.
C24_AppendOnly ==
  [][/\ Len(counts') >= Len(counts)
     /\ \A i \in 1..Len(counts) :
          /\ counts'[i].id = counts[i].id
          /\ counts'[i].counter_id = counts[i].counter_id
          /\ counts'[i].expiry = counts[i].expiry
          /\ counts'[i].created_at = counts[i].created_at
          /\ now > counts[i].expiry => now' > counts'[i].expiry]_vars

\* The first Count has expired with the value it reached, and its successor
\* has been incremented since.
C24_Witness ==
  /\ Len(counts) = 2
  /\ counts[1].expiry < now /\ counts[1].value > 0
  /\ counts[2].value > 0
  /\ ret.op = "inc" /\ ret.err = "" /\ ret.count = counts[2]


\* C25: while a Get is in progress no Counter changes and the Count rows change
\* by at most one appended row, with which the call returns; when the latest
\* Count is not expired at the check, the call returns that row with its stored
\* value and the rows are unchanged.
C25_GetReadsOrRollsOver ==
  [][proc[1].op = "get" =>
       /\ counters' = counters
       /\ \/ counts' = counts
          \/ /\ Len(counts') = Len(counts) + 1
             /\ SubSeq(counts', 1, Len(counts)) = counts
             /\ proc'[1].pc = "idle"
       /\ (At(1, "checkExpiry") /\ ~(now > Latest(proc[1].id).expiry)) =>
             /\ counts' = counts
             /\ proc'[1].pc = "idle"
             /\ ret' = [CallOf(1) EXCEPT !.count = Latest(proc[1].id)]]_vars

\* A Get has returned the open Count, which succeeded an earlier Count and has
\* been incremented.
C25_Witness ==
  /\ Len(counts) = 2
  /\ counts[2].value > 0
  /\ ~(now > counts[2].expiry)
  /\ proc[1].pc = "idle"
  /\ ret.op = "get" /\ ret.err = "" /\ ret.count = counts[2]


\* C26: CreateCounter under a name no Counter carries, written exactly so,
\* succeeds and adds the Counter, also when a Counter carries the name in
\* another case; under a name a Counter carries it fails and adds nothing; no
\* two Counters share a name.
C26_NamesUnique ==
  [][/\ \A name \in DirNames, f \in FreqInputs, z \in ZoneInputs :
          CreateCounter(1, name, f, z) =>
            IF \E i \in 1..Len(counters) : counters[i].name = name
            THEN ret'.err # "" /\ counters' = counters
            ELSE /\ ret'.err = ""
                 /\ Len(counters') = Len(counters) + 1
                 /\ counters'[Len(counters')].name = name
     /\ \A i, j \in 1..Len(counters') :
          i # j => counters'[i].name # counters'[j].name]_vars

\* Two Counters whose names differ only by case exist, and a further creation
\* under one of the names has failed.
C26_Witness ==
  /\ Len(counters) = 2
  /\ counters[1].name = "a" /\ counters[2].name = "A"
  /\ ret.op = "create" /\ ret.err = "duplicate"


\* C27: a CreateCounter that adds a Counter stores frequency "1d" when the
\* frequency passed is empty and timezone "UTC" when the timezone passed is
\* empty, stores every other argument exactly as passed, and returns the
\* Counter as stored.
C27_CreateDefaults ==
  [][\A name \in DirNames, f \in FreqInputs, z \in ZoneInputs :
       (CreateCounter(1, name, f, z) /\ counters' # counters) =>
         LET c == counters'[Len(counters')]
         IN /\ c.name = name
            /\ c.frequency = (IF f = <<>> THEN <<"1", "d">> ELSE f)
            /\ c.timezone = (IF z = "" THEN "UTC" ELSE z)
            /\ ret'.err = "" /\ ret'.counter = c]_vars

\* One Counter was created with both defaults, and the creation of a second
\* with a frequency and a timezone that do not parse has just returned it.
C27_Witness ==
  /\ Len(counters) = 2
  /\ counters[1].frequency = <<"1", "d">> /\ counters[1].timezone = "UTC"
  /\ counters[2].frequency = Str1m /\ counters[2].timezone = "Mars/Base"
  /\ ret.op = "create" /\ ret.err = "" /\ ret.counter = counters[2]


\* C28: UpdateCounterFrequency for an id that no Counter carries returns the
\* error "not found" and leaves every Counter and every Count as it was.
C28_UpdateMissingFails ==
  [][\A id \in CounterIDs, f \in FreqInputs :
       (UpdateCounterFrequency(1, id, f) /\ \A i \in 1..Len(counters) : counters[i].id # id) =>
         /\ ret' = [Call("update", id, 0) EXCEPT !.err = "not found"]
         /\ counters' = counters
         /\ counts' = counts
         /\ proc'[1].pc = "idle"]_vars

\* With a Counter and an incremented Count in the store, an update for an id
\* that no Counter carries has failed.
C28_Witness ==
  /\ Len(counters) = 1
  /\ Len(counts) > 0 /\ counts[1].value > 0
  /\ ret.op = "update" /\ ret.id = 2 /\ ret.err = "not found"

\* C29: the UPDATE of UpdateCounterFrequency for an id that a Counter carries
\* changes the frequency of that Counter to the one passed and nothing else:
\* every other field, every other Counter and every Count row, the expiry of
\* the open Count included, stay as they were; the closing read returns the
\* Counter as stored and changes nothing; a Count created afterwards expires
\* at the boundary of the frequency stored then.
C29_UpdateChangesOnlyFrequency ==
  [][/\ \A id \in CounterIDs, f \in FreqInputs :
          (UpdateCounterFrequency(1, id, f) /\ \E i \in 1..Len(counters) : counters[i].id = id) =>
            /\ Len(counters') = Len(counters)
            /\ \A i \in 1..Len(counters) :
                 IF counters[i].id = id
                 THEN counters' [i] = [id |-> counters[i].id, name |-> counters[i].name,
                                       frequency |-> f, timezone |-> counters[i].timezone,
                                       created_at |-> counters[i].created_at]
                 ELSE counters'[i] = counters[i]
            /\ counts' = counts
     /\ At(1, "readBack") =>
          /\ counters' = counters /\ counts' = counts
          /\ proc'[1].pc = "idle" =>
               /\ ret'.op = "update" /\ ret'.err = ""
               /\ \E i \in 1..Len(counters) :
                    counters[i].id = ret'.id /\ ret'.counter = counters[i]
     /\ (At(1, "computeExpiry") /\ proc'[1].pc = "insert") =>
          LET c == counters[proc[1].id]
          IN proc'[1].expiry = NextExpiryTime(c.frequency, now, c.timezone).t]_vars

\* The frequency of a Counter with a non-default timezone and an open,
\* incremented Count has been changed, and the Count has kept its expiry of
\* the earlier frequency.
C29_Witness ==
  /\ Len(counters) = 1 /\ Len(counts) = 1
  /\ counters[1].frequency = Str1h /\ counters[1].timezone = "Etc/GMT+1"
  /\ counts[1].value > 0 /\ ~(now > counts[1].expiry)
  /\ counts[1].expiry - counts[1].created_at > Hour
  /\ ret.op = "update" /\ ret.err = "" /\ ret.counter = counters[1]


\* C30: the first row that GetCountHistory returns for a counter with Count
\* rows is the row that GetOrCreateCurrentCount takes as the latest, the one
\* with the greatest id, also after concurrent inserts.
C30_HistoryHeadIsLatest ==
  [][(ret' # ret /\ ret'.op = "history" /\ ret'.rows # <<>>) =>
       ret'.rows[1] = Latest(ret'.id)]_vars


\* C31: no update is lost: the UPDATE of an IncrementCurrentCount with a
\* positive delta on an open Count stores the value the row holds at that
\* instant plus the delta (short of overflow), so that the value after two
\* concurrent calls with deltas d1 and d2 on a Count of value v is
\* v + d1 + d2.
C31_NoLostUpdate ==
  [][\A p \in Procs :
       (/\ At(p, "update")
        /\ proc[p].delta > 0
        /\ counts[proc[p].cur.id].expiry >= now
        /\ counts[proc[p].cur.id].value + proc[p].delta <= MaxInt) =>
         counts'[proc[p].cur.id].value = counts[proc[p].cur.id].value + proc[p].delta]_vars


\* C32: at the instant IncrementCurrentCount applies its UPDATE, the row it
\* updates is the Count of the counter with the greatest id, whatever
\* concurrent calls did in between.
C32_UpdateTargetsLatest ==
  [][\A p \in Procs :
       At(p, "update") => proc[p].cur.id = Latest(proc[p].id).id]_vars


\* C33: a GetOrCreateCurrentCount that follows, with no clock advance, a
\* GetOrCreateCurrentCount of the same counter that returned a Count created
\* at this instant returns the Count with the same id and inserts no row.
C33_GetIdempotent ==
  [][(/\ proc[1].op = "get" /\ proc'[1].pc = "idle"
      /\ ret.op = "get" /\ ret.err = "" /\ ret.id = proc[1].id
      /\ ret.count.created_at = now) =>
       /\ ret'.err = ""
       /\ ret'.count.id = ret.count.id
       /\ counts' = counts]_vars


\* C34: in sequential execution, whenever a Count is inserted for a counter,
\* every earlier Count of that counter has its expiry at or before the
\* insertion instant, and the expiry of the new Count is strictly greater than
\* the expiry of every earlier Count of the counter.
C34_EpochsDoNotOverlap ==
  [][At(1, "insert") =>
       \A i \in RowsOf(proc[1].id) :
         /\ counts[i].expiry <= now
         /\ counts[i].expiry < counts'[Len(counts')].expiry]_vars


\* The length of one unit of the specifier's kind.
PeriodOf(unit) == IF unit = "h" THEN Hour ELSE IF unit = "d" THEN Day ELSE Week

\* C35: for every valid specifier, instant and resolvable timezone the result
\* of NextExpiryTime lies after now and at most one full period (n hours, n
\* days or n weeks) after it.
C35_WithinOnePeriod ==
  (fout # Pending /\ fout.err = "" /\ ArgN >= 1) =>
    /\ fout.t - fin.now > 0
    /\ fout.t - fin.now <= ArgN * PeriodOf(ParseFrequency(fin.freq).unit)

\* C36: NextExpiryTime is monotone in now: for every valid specifier and
\* resolvable timezone, a later instant never has an earlier result.
C36_Monotone ==
  (fout # Pending /\ fout.err = "" /\ ArgN >= 1) =>
    \A t2 \in FreqInstants :
      fin.now <= t2 => fout.t <= NextExpiryTime(fin.freq, t2, fin.tz).t


\* C37: in every reachable state every stored Counter has a frequency that
\* ParseFrequency accepts, and no GetOrCreateCurrentCount has failed on a
\* stored frequency.
C37_StoredFrequencyValid ==
  /\ \A i \in 1..Len(counters) : ParseFrequency(counters[i].frequency).ok
  /\ (ret.op = "get" /\ ret.id \in 1..Len(counters)) => ret.err # "format"


\* C38: the UPDATE of an IncrementCurrentCount with a positive delta stores a
\* value that is not below the value the row held, also when the sum of the
\* two exceeds the largest integer of the value's width.
C38_PositiveDeltaNeverLowers ==
  [][\A p \in Procs :
       (At(p, "update") /\ proc[p].delta > 0) =>
         counts'[proc[p].cur.id].value >= counts[proc[p].cur.id].value]_vars


\* C39: for every request body, the UPDATE of a call made by the increment
\* endpoint stores a value not below the one the row held, the UPDATE of a
\* call made by the decrement endpoint stores a value not above it, and no
\* call of either endpoint passes delta 0 to IncrementCurrentCount.
C39_EndpointsKeepDirection ==
  [][\A p \in Procs :
       /\ (At(p, "update") /\ proc[p].via = "increment") =>
            counts'[proc[p].cur.id].value >= counts[proc[p].cur.id].value
       /\ (At(p, "update") /\ proc[p].via = "decrement") =>
            counts'[proc[p].cur.id].value <= counts[proc[p].cur.id].value
       /\ proc'[p].via # "" => proc'[p].delta # 0
       /\ ret' # ret => ret'.err # "delta must be non-zero"]_vars

=============================================================================
